---------------------------- MODULE Spec2Model ----------------------------
(***************************************************************************)
(* midi-listener: a listener over the host's Web MIDI access object.       *)
(*                                                                         *)
(* Two variants of the MidiListener class are modelled:                    *)
(*   "caller"  - the subscribe/Caller based class                          *)
(*               (src/source/utilities/Caller.ts, lines 84-229);           *)
(*   "options" - the class taking its callbacks as constructor options     *)
(*               (src/source/MidiListener.ts).                             *)
(* The host (browser) owns the access object: the ordered map of input     *)
(* ports, the single onstatechange slot and each port's single             *)
(* onmidimessage slot.                                                     *)
(*                                                                         *)
(* Numbers: value = data[2] / 127 is kept as the exact rational            *)
(* [num, den]; NaN is the record with nan = TRUE.  A frequency             *)
(* 440 * 2^((code - 69) / 12) is kept as the exact exponent in twelfths.   *)
(***************************************************************************)
EXTENDS Integers, Sequences, FiniteSets, TLC

\* ------------------------------------------------------------------ bounds

\* Largest number of ports in access.inputs.
MaxDevices == 2

\* Largest number of callbacks subscribed to one event of a listener.
MaxCallbacks == 2

\* ------------------------------------------------------- host declarations

\* MIDIPort.state
PortStates == {"connected", "disconnected"}

\* MIDIPort.connection
PortConnections == {"open", "closed", "pending"}

\* MIDIPort.name, for the ports the host offers
PortNames == {"keys", "pads"}

\* The (state, connection) pairs the host puts a port in.
PortStatuses ==
  { <<"connected", "open">>, <<"connected", "closed">>,
    <<"disconnected", "pending">> }

\* JavaScript's undefined, for a number-typed field that was never assigned
\* and for a byte read past the end of a Uint8Array.
Undefined == -1

\* A slot (onstatechange, onmidimessage) that no listener has written.
NoHandler == 0

\* The listeners an application may construct on one access object.
Listeners == {1, 2}

\* ------------------------------------------------------------ the listener

\* Keys of MidiListener.events, in their declaration (for-in) order.
EventNames ==
  <<"onInputChange", "onMessage", "onNote", "onPad", "onPitchBend", "onModWheel">>

EventNameSet == {EventNames[i] : i \in 1..Len(EventNames)}

\* Function values an application passes as callbacks.
Funcs == {"f", "g", "u", "a", "c"}

\* The callbacks objects an application passes to subscribe(), each a
\* function from the event names it defines to the callback.
AllCallbacks == [e \in EventNameSet |-> "f"]

InputAndMessageCallbacks == [e \in {"onInputChange", "onMessage"} |-> "g"]

NoCallbacks == [e \in {} |-> "f"]

CallbackObjects == {AllCallbacks, InputAndMessageCallbacks}

\* Callback objects whose functions act on the listener when called: "u"
\* calls the function its subscribe call returned, "a" subscribes
\* AddedCallbacks, "c" calls clear().
ActingEvents == {"onInputChange", "onMessage"}

SelfRemovingCallbacks == [e \in ActingEvents |-> "u"]

AddingCallbacks == [e \in ActingEvents |-> "a"]

AddedCallbacks == [e \in ActingEvents |-> "f"]

ClearingCallbacks == [e \in ActingEvents |-> "c"]

ActingObjects == {InputAndMessageCallbacks, SelfRemovingCallbacks, AddingCallbacks,
                  ClearingCallbacks}

\* The options objects an application passes to the options constructor.
OptionObjects == {AllCallbacks, NoCallbacks}

VARIABLES
  inputs,                \* access.inputs, in map order: ports
  onstatechange,         \* access.onstatechange: the listener whose closure it holds
  variant,               \* per listener: "none" (not constructed), "caller", "options"
  numberOfActiveInputs,  \* per listener: the stored count (numberOfOpenConnections)
  events,                \* per listener: event name -> Caller.callbacks
  options,               \* per listener: the callbacks given to the options constructor
  handles,               \* per listener: callbacks objects whose unsubscribe handle exists
  op,                    \* the entry point that ran last
  trace,                 \* what that entry point emitted and called, in order
  last,                  \* per listener: what its latest curation pass computed
  initial,               \* per listener: the callbacks its first curation pass called
  since,                 \* how the host changed access.inputs since the latest pass
  prev                   \* what the pass before the one that just ran computed, and
                         \* how the host changed access.inputs between the two

vars ==
  <<inputs, onstatechange, variant, numberOfActiveInputs, events, options,
    handles, op, trace, last, initial, since, prev>>

\* ------------------------------------------------------------------ Caller

\* Caller.add: callbacks.push(callback)
CallerAdd(callbacks, callback) == Append(callbacks, callback)

\* Caller.remove: callbacks.filter(cb => cb !== callback)
CallerRemove(callbacks, callback) == SelectSeq(callbacks, LAMBDA cb : cb # callback)

\* A variant of clear that leaves the callbacks in place.
CallerClearNothing(callbacks) == callbacks

\* Caller.clear
CallerClear(callbacks) == <<>>

\* One record of the trace: an event emitted (invoke called, or the option
\* callback slot called), or one callback called with the report.
Emitted(e, report) == [kind |-> "emit", event |-> e, fn |-> "", report |-> report]

Called(e, fn, report) == [kind |-> "call", event |-> e, fn |-> fn, report |-> report]

\* The loop of subscribe(callbacks) over this.events: add callbacks[e] to the
\* caller of every event e the object names.
Subscribed(callers, callbacks) ==
  [e \in EventNameSet |->
     IF e \in DOMAIN callbacks
       THEN CallerAdd(callers[e], callbacks[e])
       ELSE callers[e]]

\* The loop of the function subscribe(callbacks) returned: remove callbacks[e]
\* from the caller of every event e the object names.
Unsubscribed(callers, callbacks) ==
  [e \in EventNameSet |->
     IF e \in DOMAIN callbacks
       THEN CallerRemove(callers[e], callbacks[e])
       ELSE callers[e]]

\* The loop of clear() over this.events.
Cleared(callers) == [e \in EventNameSet |-> CallerClear(callers[e])]

\* callback.apply(null, args): what calling function value fn does to the
\* listener's callers.  "u" calls the function returned by the subscribe call
\* that registered it, "a" subscribes AddedCallbacks, "c" calls clear(); the
\* other function values leave the listener alone.
Apply(fn, callers) ==
  CASE fn = "u" -> Unsubscribed(callers, SelfRemovingCallbacks)
    [] fn = "a" -> Subscribed(callers, AddedCallbacks)
    [] fn = "c" -> Cleared(callers)
    [] OTHER -> callers

\* A variant in which remove and clear empty or shorten the array in place.
AssignsNothing(fn, e) == FALSE

\* Calling fn made the caller of event e hold a new array: remove and clear
\* assign this.callbacks, add pushes onto the array it holds.
AssignsCallbacks(fn, e) ==
  \/ fn = "c"
  \/ fn = "u" /\ e \in DOMAIN SelfRemovingCallbacks

\* The loop of Caller.invoke from position i: array is the array the loop
\* iterates over, held tells whether the caller of e still holds that array
\* (then a push by a callback is seen by the loop), st is the listener's
\* callers and the trace so far.
RECURSIVE InvokeFrom(_, _, _, _, _, _)
InvokeFrom(array, held, i, e, report, st) ==
  IF i > Len(array)
    THEN st
    ELSE LET fn == array[i]
             callers == Apply(fn, st.callers)
             stillHeld == held /\ ~AssignsCallbacks(fn, e)
         IN InvokeFrom(IF stillHeld THEN callers[e] ELSE array, stillHeld,
                       i + 1, e, report,
                       [callers |-> callers,
                        trace |-> Append(st.trace, Called(e, fn, report))])

\* Caller.invoke: for (const callback of this.callbacks) callback.apply(null, args)
\* on the caller of event e: the listener's callers after it, and its trace.
CallerInvoke(callers, e, report) ==
  InvokeFrom(callers[e], TRUE, 1, e, report, [callers |-> callers, trace |-> <<>>])

\* this.events[e].invoke(report) of the caller variant; this[e](report) of the
\* options variant, where an absent option is the no-op.  v, callers and opts
\* are the listener's variant, its events and its options when it emits; the
\* result is the listener's callers after the event, and the trace.
Emit(v, callers, opts, e, report) ==
  LET called == IF v = "caller"
                  THEN CallerInvoke(callers, e, report)
                  ELSE [callers |-> callers,
                        trace |-> IF e \in DOMAIN opts
                                    THEN <<Called(e, opts[e], report)>>
                                    ELSE <<>>]
  IN [callers |-> called.callers, trace |-> <<Emitted(e, report)>> \o called.trace]

\* An entry point that emitted nothing.
Silent(callers) == [callers |-> callers, trace |-> <<>>]

\* ---------------------------------------------------------------- curation

\* input.state === "connected" && input.connection === "open"
IsOpenConnection(input) == input.state = "connected" /\ input.connection = "open"

\* numberOfOpenConnections after the loop over the inputs
CountOpenConnections(ins) == Cardinality({i \in DOMAIN ins : IsOpenConnection(ins[i])})

\* inputNames after the loop over the inputs
CollectInputNames(ins) == [i \in DOMAIN ins |-> ins[i].name]

\* A variant that attaches to the connected and open inputs only.
AttachToOpenConnections(ins, l) ==
  [i \in DOMAIN ins |->
     IF ins[i].state = "connected" /\ ins[i].connection = "open"
       THEN [ins[i] EXCEPT !.onmidimessage = l]
       ELSE ins[i]]

\* A variant that attaches to the inputs whose slot is unset only.
AttachToFreeInputs(ins, l) ==
  [i \in DOMAIN ins |->
     IF ins[i].onmidimessage = NoHandler
       THEN [ins[i] EXCEPT !.onmidimessage = l]
       ELSE ins[i]]

\* input.onmidimessage = message => this.handleMidiMessage(message), for every input
AttachMessageListener(ins, l) ==
  [i \in DOMAIN ins |-> [ins[i] EXCEPT !.onmidimessage = l]]

\* Variants of the comparison: one that fires on a growing count only, one
\* that lets the first pass only record the count, one that always fires.
CountHasGrown(count, stored) == count > stored

CountHasChangedAfterFirst(count, stored) == stored # Undefined /\ count # stored

CountAlwaysChanged(count, stored) == TRUE

\* numberOfOpenConnections !== this.numberOfActiveInputs
CountHasChanged(count, stored) == count # stored

\* A variant that stores the count of the first pass only.
FirstCountKept(count, stored) == IF stored = Undefined THEN count ELSE stored

\* The stored count after the pass.
UpdatedCount(count, stored) == IF CountHasChanged(count, stored) THEN count ELSE stored

\* What a pass that has not happened computed.
NoPass == [count |-> Undefined, repeated |-> FALSE]

\* prev, when the entry point that ran last was no curation pass.
NoPrev == [count |-> Undefined, stored |-> Undefined, changes |-> {}]

\* The function values a trace called.
CalledFuncs(t) == {t[i].fn : i \in {j \in DOMAIN t : t[j].kind = "call"}}

\* MidiListener.curateMidiInputs, run by listener l of variant v with options opts
curateMidiInputs(l, v, opts) ==
  LET count == CountOpenConnections(inputs)
      inputNames == CollectInputNames(inputs)
      emitted == IF CountHasChanged(count, numberOfActiveInputs[l])
                   THEN Emit(v, events[l], opts, "onInputChange",
                             [inputNames |-> inputNames])
                   ELSE Silent(events[l])
  IN /\ inputs' = AttachMessageListener(inputs, l)
     /\ trace' = emitted.trace
     /\ events' = [events EXCEPT ![l] = emitted.callers]
     /\ \A e \in EventNameSet : Len(events'[l][e]) <= MaxCallbacks
     /\ numberOfActiveInputs' =
          [numberOfActiveInputs EXCEPT ![l] = UpdatedCount(count, @)]
     /\ initial' = IF last[l] = NoPass
                     THEN [initial EXCEPT ![l] = CalledFuncs(trace')]
                     ELSE initial
     /\ prev' = [count |-> last[l].count, stored |-> numberOfActiveInputs[l],
                 changes |-> since]
     /\ since' = {}
     /\ last' = [last EXCEPT ![l] =
                   [count |-> count, repeated |-> last[l].count # Undefined]]

\* --------------------------------------------------------------- messages

\* The divisor of message.data[2] / 127
ValueDivisor == 127

\* A number n / ValueDivisor
Rational(n) == [nan |-> FALSE, num |-> n, den |-> ValueDivisor]

\* undefined / 127
NaN == [nan |-> TRUE, num |-> 0, den |-> ValueDivisor]

\* A variant that forgets the minus sign.
NegateForgotten(value) == value

\* -value
Negate(value) == IF value.nan THEN value ELSE [value EXCEPT !.num = 0 - @]

\* message.data[i] of a Uint8Array held as a sequence: undefined past the end
DataAt(data, i) == IF i + 1 <= Len(data) THEN data[i + 1] ELSE Undefined

\* MidiListener.parseMidiMessage
parseMidiMessage(data) ==
  [ data |-> data,
    command |-> IF DataAt(data, 0) = Undefined THEN 0 ELSE DataAt(data, 0) \div 16,
    channel |-> IF DataAt(data, 0) = Undefined THEN 0 ELSE DataAt(data, 0) % 16,
    code |-> DataAt(data, 1),
    value |-> IF DataAt(data, 2) = Undefined THEN NaN ELSE Rational(DataAt(data, 2)) ]

\* 2^n
RECURSIVE Pow2(_)
Pow2(n) == IF n = 0 THEN 1 ELSE 2 * Pow2(n - 1)

\* The fraction bits of a Number, an IEEE 754 double.
FractionBits == 52

\* The binary exponent of n / 12, for an integer n in 1..255: the E with
\* 2^E <= n / 12 < 2^(E + 1).
ExponentOfTwelfths(n) ==
  CHOOSE E \in -4..4 :
    IF E < 0
      THEN 12 <= n * Pow2(0 - E) /\ n * Pow2(0 - E) < 24
      ELSE 12 * Pow2(E) <= n /\ n < 24 * Pow2(E)

\* The long division runs in digits of 13 bits, in base 2^13.
DigitBits == 13

DigitBase == Pow2(DigitBits)

\* Long division: the remainder r of a division by d after bits further
\* quotient bits, and the last quotient bit.
RECURSIVE DivideBits(_, _, _, _)
DivideBits(r, d, bits, lastBit) ==
  IF bits = 0
    THEN [r |-> r, lastBit |-> lastBit]
    ELSE DivideBits((r * DigitBase) % d, d, bits - DigitBits,
                    ((r * DigitBase) \div d) % 2)

\* The rounding error of the division k / 12 in Numbers: the quotient, rounded
\* to nearest with ties to even at FractionBits fraction bits, minus k / 12,
\* in units of 2^-56 / 12.
DivisionError(k) ==
  IF k = 0
    THEN 0
    ELSE LET n == IF k < 0 THEN 0 - k ELSE k
             E == ExponentOfTwelfths(n)
             d == IF E < 0 THEN 12 ELSE 12 * Pow2(E)
             scaled == IF E < 0 THEN n * Pow2(0 - E) ELSE n
             rest == DivideBits(scaled - d, d, FractionBits, 1)
             up == 2 * rest.r > d \/ (2 * rest.r = d /\ rest.lastBit = 1)
             ulps == IF up THEN d - rest.r ELSE 0 - rest.r
             units == IF E < 0 THEN ulps * Pow2(E + 4) ELSE ulps * 16
         IN IF k < 0 THEN 0 - units ELSE units

\* A variant that takes middle C, note 60, as the note of 440 Hz.
noteCodeToFrequencyFromC(code) ==
  IF code = Undefined
    THEN [nan |-> TRUE, base |-> 440, twelfths |-> 0, error |-> 0]
    ELSE [nan |-> FALSE, base |-> 440, twelfths |-> code - 60,
          error |-> DivisionError(code - 60)]

\* MidiListener.noteCodeToFrequency: 440 * Math.pow(2, (code - 69) / 12), kept
\* as base * 2^(twelfths / 12 + error * 2^-56 / 12), where the exponent is the
\* Number the division gives
noteCodeToFrequency(code) ==
  IF code = Undefined
    THEN [nan |-> TRUE, base |-> 440, twelfths |-> 0, error |-> 0]
    ELSE [nan |-> FALSE, base |-> 440, twelfths |-> code - 69,
          error |-> DivisionError(code - 69)]

\* command === 8 || command === 9
IsStartStopCommand(command) == command = 8 \/ command = 9

\* A variant that takes the name isStopCommand at its word: 8 is positive.
VelocityOfStopPositive(command, value) == IF command = 8 THEN value ELSE Negate(value)

\* const isStopCommand = command === 9; velocity = isStopCommand ? value : -value
Velocity(command, value) == IF command = 9 THEN value ELSE Negate(value)

\* channel === 0 || channel === 15
IsKeyNoteChannel(channel) == channel = 0 \/ channel = 15

\* A variant that takes the pads to be on channel 10, as MIDI numbers it from 1.
IsPadChannelTen(channel) == channel = 10

\* channel === 9
IsPadChannel(channel) == channel = 9

\* A variant that takes every controller for the modulation wheel.
IsAnyControllerCode(code) == TRUE

\* code === 1
IsModWheelCode(code) == code = 1

\* The branches of handleMidiMessage after the Message event: the event name
\* and report of the specialized event, or none.
Specialized(report) ==
  IF IsStartStopCommand(report.command)
    THEN IF IsKeyNoteChannel(report.channel)
           THEN <<[event |-> "onNote",
                   report |-> [code |-> report.code,
                               velocity |-> Velocity(report.command, report.value),
                               frequency |-> noteCodeToFrequency(report.code)]]>>
           ELSE IF IsPadChannel(report.channel)
                  THEN <<[event |-> "onPad",
                          report |-> [code |-> report.code,
                                      velocity |-> Velocity(report.command, report.value)]]>>
                  ELSE <<>>
    ELSE IF report.command = 11
           THEN IF IsModWheelCode(report.code)
                  THEN <<[event |-> "onModWheel", report |-> [value |-> report.value]]>>
                  ELSE <<>>
           ELSE IF report.command = 14
                  THEN <<[event |-> "onPitchBend", report |-> [value |-> report.value]]>>
                  ELSE <<>>

\* A variant that emits the specialized event before the Message event.
handleMidiMessageSpecializedFirst(v, callers, opts, data) ==
  LET messageReport == parseMidiMessage(data)
      special == Specialized(messageReport)
      first == IF special = <<>>
                 THEN Silent(callers)
                 ELSE Emit(v, callers, opts, special[1].event, special[1].report)
      second == Emit(v, first.callers, opts, "onMessage", messageReport)
  IN [callers |-> second.callers, trace |-> first.trace \o second.trace]

\* A variant that announces the inputs with every message.
handleMidiMessageAnnouncing(v, callers, opts, data) ==
  LET messageReport == parseMidiMessage(data)
      first == Emit(v, callers, opts, "onInputChange", [inputNames |-> <<>>])
      second == Emit(v, first.callers, opts, "onMessage", messageReport)
  IN [callers |-> second.callers, trace |-> first.trace \o second.trace]

\* MidiListener.handleMidiMessage: the listener's callers after handling
\* data, and the trace
handleMidiMessage(v, callers, opts, data) ==
  LET messageReport == parseMidiMessage(data)
      special == Specialized(messageReport)
      first == Emit(v, callers, opts, "onMessage", messageReport)
      second == IF special = <<>>
                  THEN Silent(first.callers)
                  ELSE Emit(v, first.callers, opts, special[1].event, special[1].report)
  IN [callers |-> second.callers, trace |-> first.trace \o second.trace]

\* The messages the host delivers in the subscriber scenarios: a note-on on
\* channel 0 and one on channel 1.
SampleMessages == { <<144, 60, 127>>, <<145, 60, 10>> }

\* The bytes of the messages the host delivers in the classification
\* scenarios: every status byte; as first data byte some controller and note
\* numbers and the end-of-exclusive byte 0xF7; as second data byte every 7-bit
\* value, 0xF7 and 0xFF.  The data is a Uint8Array, and a system exclusive
\* message (0xF0 ... 0xF7) carries 0xF7 wherever it ends.
StatusBytes == 0..255

DataBytes1 == {1, 2, 60, 247}

DataBytes2 == (0..127) \cup {247, 255}

\* Those messages: of length 3, and cut short to length 2 and 1.
AllMessages ==
  {<<s, c, d>> : s \in StatusBytes, c \in DataBytes1, d \in DataBytes2}
    \cup {<<s, c>> : s \in StatusBytes, c \in DataBytes1}
    \cup {<<s>> : s \in StatusBytes}

\* ------------------------------------------------------------------ actions

\* Who ran last: kind of entry point, the listener, the input (0: none).
Op(kind, l, i) == [kind |-> kind, listener |-> l, input |-> i]

\* The message handler ran last, for listener l, on data arriving at input i.
MessageOp(l, i, data) == [kind |-> "message", listener |-> l, input |-> i, data |-> data]

Init ==
  /\ inputs = <<>>
  /\ onstatechange = NoHandler
  /\ variant = [l \in Listeners |-> "none"]
  /\ numberOfActiveInputs = [l \in Listeners |-> Undefined]
  /\ events = [l \in Listeners |-> [e \in EventNameSet |-> <<>>]]
  /\ options = [l \in Listeners |-> NoCallbacks]
  /\ handles = [l \in Listeners |-> {}]
  /\ op = Op("init", 0, 0)
  /\ trace = <<>>
  /\ last = [l \in Listeners |-> NoPass]
  /\ initial = [l \in Listeners |-> {}]
  /\ since = {}
  /\ prev = NoPrev

\* The names of the ports of ins that are connected and open, in map order.
OpenNames(ins) == CollectInputNames(SelectSeq(ins, IsOpenConnection))

\* Bookkeeping of a host step that takes access.inputs to inputs': the kinds
\* of change the list has seen since the latest pass ("names": the list of
\* names differs; "opened" / "closed": a port joined / left the connected and
\* open ones), and no listener code ran.
HostChanged ==
  /\ since' = since
       \cup (IF CollectInputNames(inputs') # CollectInputNames(inputs)
               THEN {"names"} ELSE {})
       \cup (IF Len(OpenNames(inputs')) > Len(OpenNames(inputs))
                  \/ (Len(inputs') = Len(inputs)
                      /\ \E i \in DOMAIN inputs :
                           IsOpenConnection(inputs'[i]) /\ ~IsOpenConnection(inputs[i]))
               THEN {"opened"} ELSE {})
       \cup (IF Len(OpenNames(inputs')) < Len(OpenNames(inputs))
                  \/ (Len(inputs') = Len(inputs)
                      /\ \E i \in DOMAIN inputs :
                           IsOpenConnection(inputs[i]) /\ ~IsOpenConnection(inputs'[i]))
               THEN {"closed"} ELSE {})
  /\ op' = Op("host", 0, 0)
  /\ trace' = <<>>
  /\ prev' = NoPrev
  /\ UNCHANGED <<onstatechange, variant, numberOfActiveInputs, events, options,
                 handles, last, initial>>

\* The host: a port appears at the end of access.inputs, its slot unset.
HostAddInput(name, status) ==
  /\ Len(inputs) < MaxDevices
  /\ inputs' = Append(inputs, [name |-> name, state |-> status[1],
                               connection |-> status[2],
                               onmidimessage |-> NoHandler])
  /\ HostChanged

\* The host: a port leaves access.inputs.
HostRemoveInput(i) ==
  /\ i \in DOMAIN inputs
  /\ inputs' = [j \in 1..(Len(inputs) - 1) |-> IF j < i THEN inputs[j] ELSE inputs[j + 1]]
  /\ HostChanged

\* The host: a port's state and connection change.
HostSetStatus(i, status) ==
  /\ i \in DOMAIN inputs
  /\ <<inputs[i].state, inputs[i].connection>> # status
  /\ inputs' = [inputs EXCEPT ![i].state = status[1], ![i].connection = status[2]]
  /\ HostChanged

\* new MidiListener({access}) of the caller variant
ConstructCaller(l) ==
  /\ variant[l] = "none"
  /\ variant' = [variant EXCEPT ![l] = "caller"]
  /\ curateMidiInputs(l, "caller", options[l])
  /\ onstatechange' = l
  /\ op' = Op("construct", l, 0)
  /\ UNCHANGED <<options, handles>>

\* new MidiListener({access, onInputChange, ...}) of the options variant
ConstructOptions(l, o) ==
  /\ variant[l] = "none"
  /\ variant' = [variant EXCEPT ![l] = "options"]
  /\ options' = [options EXCEPT ![l] = o]
  /\ curateMidiInputs(l, "options", o)
  /\ onstatechange' = l
  /\ op' = Op("construct", l, 0)
  /\ UNCHANGED handles

\* The host calls access.onstatechange: () => this.curateMidiInputs()
StateChange ==
  /\ onstatechange # NoHandler
  /\ curateMidiInputs(onstatechange, variant[onstatechange], options[onstatechange])
  /\ op' = Op("statechange", onstatechange, 0)
  /\ UNCHANGED <<onstatechange, variant, options, handles>>

\* The host calls inputs[i].onmidimessage with data
MidiMessage(i, data) ==
  /\ i \in DOMAIN inputs
  /\ inputs[i].onmidimessage # NoHandler
  /\ LET l == inputs[i].onmidimessage
         handled == handleMidiMessage(variant[l], events[l], options[l], data)
     IN /\ trace' = handled.trace
        /\ events' = [events EXCEPT ![l] = handled.callers]
        /\ \A e \in EventNameSet : Len(events'[l][e]) <= MaxCallbacks
        /\ op' = MessageOp(l, i, data)
  /\ prev' = NoPrev
  /\ UNCHANGED <<inputs, onstatechange, variant, numberOfActiveInputs,
                 options, handles, last, initial, since>>

\* MidiListener.subscribe(callbacks)
Subscribe(l, callbacks) ==
  /\ variant[l] = "caller"
  /\ \A e \in DOMAIN callbacks : Len(events[l][e]) < MaxCallbacks
  /\ events' = [events EXCEPT ![l] = Subscribed(events[l], callbacks)]
  /\ handles' = [handles EXCEPT ![l] = @ \cup {callbacks}]
  /\ op' = Op("subscribe", l, 0)
  /\ trace' = <<>>
  /\ prev' = NoPrev
  /\ UNCHANGED <<inputs, onstatechange, variant, numberOfActiveInputs, options,
                 last, initial, since>>

\* The function subscribe(callbacks) returned is called
Unsubscribe(l, callbacks) ==
  /\ callbacks \in handles[l]
  /\ events' = [events EXCEPT ![l] = Unsubscribed(events[l], callbacks)]
  /\ op' = Op("unsubscribe", l, 0)
  /\ trace' = <<>>
  /\ prev' = NoPrev
  /\ UNCHANGED <<inputs, onstatechange, variant, numberOfActiveInputs, options,
                 handles, last, initial, since>>

\* MidiListener.clear()
Clear(l) ==
  /\ variant[l] = "caller"
  /\ events' = [events EXCEPT ![l] = Cleared(events[l])]
  /\ op' = Op("clear", l, 0)
  /\ trace' = <<>>
  /\ prev' = NoPrev
  /\ UNCHANGED <<inputs, onstatechange, variant, numberOfActiveInputs, options,
                 handles, last, initial, since>>

\* The curation scenarios: the host changes the ports and notifies, one
\* listener of either variant is constructed.
Next ==
  \/ \E name \in PortNames, status \in PortStatuses : HostAddInput(name, status)
  \/ \E i \in 1..MaxDevices : HostRemoveInput(i)
  \/ \E i \in 1..MaxDevices, status \in PortStatuses : HostSetStatus(i, status)
  \/ ConstructCaller(1)
  \/ \E o \in OptionObjects : ConstructOptions(1, o)
  \/ StateChange

Spec == Init /\ [][Next]_vars

\* The subscriber scenarios: one listener of either variant, its subscribers
\* coming and going, ports named "keys" coming, going and changing, and
\* messages arriving.
NextSubscribers ==
  \/ \E status \in PortStatuses : HostAddInput("keys", status)
  \/ \E i \in 1..MaxDevices : HostRemoveInput(i)
  \/ \E i \in 1..MaxDevices, status \in PortStatuses : HostSetStatus(i, status)
  \/ ConstructCaller(1)
  \/ \E o \in OptionObjects : ConstructOptions(1, o)
  \/ StateChange
  \/ \E i \in 1..MaxDevices, data \in SampleMessages : MidiMessage(i, data)
  \/ \E o \in CallbackObjects : Subscribe(1, o)
  \/ \E o \in CallbackObjects : Unsubscribe(1, o)
  \/ Clear(1)

SpecSubscribers == Init /\ [][NextSubscribers]_vars

\* The message the host delivers in the scenarios of acting callbacks: a
\* note-on on channel 0.
ActingMessage == <<144, 60, 127>>

\* The scenarios of acting callbacks: one listener of the caller variant, its
\* subscribers, some of which unsubscribe, subscribe or clear when called,
\* coming and going; connected and open ports named "keys" coming and going;
\* messages arriving.
NextActing ==
  \/ HostAddInput("keys", <<"connected", "open">>)
  \/ \E i \in 1..MaxDevices : HostRemoveInput(i)
  \/ ConstructCaller(1)
  \/ StateChange
  \/ \E i \in 1..MaxDevices : MidiMessage(i, ActingMessage)
  \/ \E o \in ActingObjects : Subscribe(1, o)
  \/ \E o \in ActingObjects : Unsubscribe(1, o)
  \/ Clear(1)

SpecActing == Init /\ [][NextActing]_vars

\* The callbacks of the listeners that share an access object: listener 1 is
\* given "f" for every event, listener 2 "g" for InputChange and Message.
ListenerCallbacks(l) == IF l = 1 THEN AllCallbacks ELSE InputAndMessageCallbacks

\* The scenarios of two listeners on one access object: each is constructed
\* once, in either order and of either variant, with its own callbacks;
\* connected and open ports named "keys" come and go; state changes and
\* messages arrive.
NextShared ==
  \/ HostAddInput("keys", <<"connected", "open">>)
  \/ \E i \in 1..MaxDevices : HostRemoveInput(i)
  \/ \E l \in Listeners : ConstructCaller(l)
  \/ \E l \in Listeners : ConstructOptions(l, ListenerCallbacks(l))
  \/ StateChange
  \/ \E i \in 1..MaxDevices : MidiMessage(i, ActingMessage)
  \/ \E l \in Listeners : Subscribe(l, ListenerCallbacks(l))

SpecShared == Init /\ [][NextShared]_vars

\* The classification scenarios: a listener of either variant with a callback
\* for every event, constructed on one connected and open port; every
\* message of AllMessages arrives on that port.
InitClassify ==
  /\ inputs = <<[name |-> "keys", state |-> "connected", connection |-> "open",
                 onmidimessage |-> 1]>>
  /\ onstatechange = 1
  /\ variant \in {[l \in Listeners |-> IF l = 1 THEN v ELSE "none"] :
                    v \in {"caller", "options"}}
  /\ numberOfActiveInputs = [l \in Listeners |-> IF l = 1 THEN 1 ELSE Undefined]
  /\ events = [l \in Listeners |->
                 [e \in EventNameSet |->
                    IF l = 1 /\ variant[1] = "caller" THEN <<"f">> ELSE <<>>]]
  /\ options = [l \in Listeners |->
                  IF l = 1 /\ variant[1] = "options" THEN AllCallbacks ELSE NoCallbacks]
  /\ handles = [l \in Listeners |->
                  IF l = 1 /\ variant[1] = "caller" THEN {AllCallbacks} ELSE {}]
  /\ op = IF variant[1] = "caller" THEN Op("subscribe", 1, 0) ELSE Op("construct", 1, 0)
  /\ trace = IF variant[1] = "caller"
               THEN <<>>
               ELSE Emit("options", events[1], AllCallbacks, "onInputChange",
                         [inputNames |-> <<"keys">>]).trace
  /\ last = [l \in Listeners |->
               IF l = 1 THEN [count |-> 1, repeated |-> FALSE] ELSE NoPass]
  /\ initial = [l \in Listeners |->
                  IF l = 1 /\ variant[1] = "options" THEN {"f"} ELSE {}]
  /\ since = {}
  /\ prev = IF variant[1] = "caller" THEN NoPrev
            ELSE [count |-> Undefined, stored |-> Undefined,
                  changes |-> {"names", "opened"}]

\* One message arrives in each scenario.
NextClassify ==
  /\ op.kind # "message"
  /\ \E data \in AllMessages : MidiMessage(1, data)

SpecClassify == InitClassify /\ [][NextClassify]_vars

\* The messages the host delivers in the note scenarios: note-off and note-on
\* on channel 0, for every note code.
NoteCodes == 0..127

NoteMessages == {<<status, code, 127>> : status \in {128, 144}, code \in NoteCodes}

\* The note scenarios: the listener of the classification scenarios; one
\* message of NoteMessages arrives in each scenario.
NextNotes ==
  /\ op.kind # "message"
  /\ \E data \in NoteMessages : MidiMessage(1, data)

SpecNotes == InitClassify /\ [][NextNotes]_vars

\* ------------------------------------------------------------ properties

\* The entry point that ran last was a curation pass.
IsCuration == op.kind \in {"construct", "statechange"}

\* The events the last entry point emitted, in order.
Emissions == SelectSeq(trace, LAMBDA r : r.kind = "emit")

\* The function values the last entry point called for event e, in order.
CallsOf(e) ==
  LET calls == SelectSeq(trace, LAMBDA r : r.kind = "call" /\ r.event = e)
  IN [i \in DOMAIN calls |-> calls[i].fn]

\* The number of ports of access.inputs that are connected and open.
OpenConnected ==
  Cardinality({i \in DOMAIN inputs :
                 inputs[i].state = "connected" /\ inputs[i].connection = "open"})

\* The names of the ports of access.inputs, in map order.
NamesInMapOrder == [i \in 1..Len(inputs) |-> inputs[i].name]

\* The last entry point emitted exactly one InputChange, carrying the names of
\* all ports of access.inputs in map order, and nothing else.
EmittedOneInputChange ==
  /\ Len(Emissions) = 1
  /\ Emissions[1].event = "onInputChange"
  /\ Emissions[1].report = [inputNames |-> NamesInMapOrder]

\* C1: a curation pass after the first emits InputChange if and only if the
\* number of connected and open ports it computed differs from the number the
\* previous pass computed; when it emits, it emits exactly one InputChange
\* carrying the names of all ports in map order.
C1_InputChangeIffCountChanged ==
  (IsCuration /\ prev.count # Undefined) =>
    /\ last[op.listener].count = OpenConnected
    /\ (Emissions # <<>>) <=> (OpenConnected # prev.count)
    /\ (Emissions # <<>>) => EmittedOneInputChange

\* C1 witness: a pass after a pass that counted 2 counts 1 and emits the name
\* of both ports.
C1_Witness ==
  /\ op.kind = "statechange"
  /\ prev.count = 2
  /\ OpenConnected = 1
  /\ EmittedOneInputChange
  /\ Len(Emissions[1].report.inputNames) = 2

\* C2: the first curation pass, run by the constructor, always emits
\* InputChange, whatever the ports are.
C2_FirstPassEmits ==
  op.kind = "construct" => EmittedOneInputChange

\* C2 witness: a listener was constructed on ports none of which is connected
\* and open, and emitted their names.
C2_Witness ==
  /\ op.kind = "construct"
  /\ inputs # <<>>
  /\ OpenConnected = 0
  /\ EmittedOneInputChange

\* C4: a pass that computes the count the previous pass computed emits no
\* InputChange and leaves the stored count as it was, however the ports have
\* changed in between.
C4_EqualCountIsSilent ==
  (IsCuration /\ prev.count # Undefined /\ OpenConnected = prev.count) =>
    /\ trace = <<>>
    /\ numberOfActiveInputs[op.listener] = prev.stored

\* C4 witness: between two passes the list of names changed, a port stopped
\* being connected and open and another became so; the second pass computed
\* the same count and was silent.
C4_Witness ==
  /\ op.kind = "statechange"
  /\ prev.count = 1
  /\ OpenConnected = 1
  /\ prev.changes = {"names", "opened", "closed"}
  /\ trace = <<>>
  /\ numberOfActiveInputs[op.listener] = 1

\* The function values registered with listener l for event e, in call order.
Registered(l, e) ==
  IF variant[l] = "caller"
    THEN events[l][e]
    ELSE IF e \in DOMAIN options[l] THEN <<options[l][e]>> ELSE <<>>

\* C3: every onInputChange callback a listener holds, given in the constructor
\* options or through subscribe, was called with the InputChange of the
\* listener's first curation pass.
C3_CallbackCalledInitially ==
  \A l \in Listeners :
    \A i \in DOMAIN Registered(l, "onInputChange") :
      Registered(l, "onInputChange")[i] \in initial[l]

\* C5: every name an InputChange carries is the name of a port whose state is
\* "connected" at the time of the pass.
C5_InputNamesAreConnected ==
  (IsCuration /\ Emissions # <<>>) =>
    \A k \in DOMAIN Emissions[1].report.inputNames :
      \E i \in DOMAIN inputs :
        /\ inputs[i].name = Emissions[1].report.inputNames[k]
        /\ inputs[i].state = "connected"

\* C6: after a curation pass every port of access.inputs, whatever its state
\* and connection, holds the listener's handler in its message slot; and a
\* message arriving on a port calls each registered onMessage callback once
\* per registration, in order, however many passes have run.
C6_HandlerOnEveryInputOnce ==
  /\ IsCuration => \A i \in DOMAIN inputs : inputs[i].onmidimessage = op.listener
  /\ op.kind = "message" => CallsOf("onMessage") = Registered(op.listener, "onMessage")

\* C6 witness: after a second pass of a listener with two onMessage
\* subscribers, a message arrived on a port that is not connected and open,
\* and both were called once.
C6_Witness ==
  /\ op.kind = "message"
  /\ last[op.listener].repeated
  /\ ~(inputs[op.input].state = "connected" /\ inputs[op.input].connection = "open")
  /\ Registered(op.listener, "onMessage") = <<"f", "g">>
  /\ CallsOf("onMessage") = <<"f", "g">>

\* The events of handleMidiMessage other than Message.
SpecialEvents == {"onNote", "onPad", "onModWheel", "onPitchBend"}

\* The emissions of event e by the last entry point.
EmissionsOf(e) == SelectSeq(Emissions, LAMBDA r : r.event = e)

\* Command and channel of the message handled last: the nibbles of its
\* status byte.
Command == op.data[1] \div 16

Channel == op.data[1] % 16

\* The Note and Pad events the last entry point emitted.
ButtonEmissions == EmissionsOf("onNote") \o EmissionsOf("onPad")

\* C7: handling one message emits exactly one Message event and at most one
\* specialized event, and every callback of the Message event is called
\* before any callback of the specialized event.
C7_MessageThenAtMostOneSpecial ==
  op.kind = "message" =>
    /\ Len(EmissionsOf("onMessage")) = 1
    /\ Len(Emissions) \in {1, 2}
    /\ \A i \in DOMAIN Emissions : Emissions[i].event \in {"onMessage"} \cup SpecialEvents
    /\ \A i, j \in DOMAIN trace :
         (trace[i].event = "onMessage" /\ trace[j].event \in SpecialEvents) => i < j

\* C7 witness: a pitch bend on channel 3 called the Message callback and then
\* the PitchBend callback.
C7_Witness ==
  /\ op.kind = "message"
  /\ op.data = <<227, 1, 127>>
  /\ CallsOf("onMessage") = <<"f">>
  /\ CallsOf("onPitchBend") = <<"f">>
  /\ Len(Emissions) = 2

\* C8: a message with command 8 or 9 emits a Note event and no Pad event
\* exactly on channel 0 or 15, a Pad event and no Note event exactly on
\* channel 9, and no specialized event on any other channel; the event
\* carries data byte 1 as its code.
C8_NoteAndPadChannels ==
  (op.kind = "message" /\ Command \in {8, 9}) =>
    /\ (Len(EmissionsOf("onNote")) = 1 /\ EmissionsOf("onPad") = <<>>)
         <=> Channel \in {0, 15}
    /\ (Len(EmissionsOf("onPad")) = 1 /\ EmissionsOf("onNote") = <<>>)
         <=> Channel = 9
    /\ Channel \notin {0, 9, 15} => Len(Emissions) = 1
    /\ Len(Emissions) = 1 + Len(ButtonEmissions)
    /\ Len(op.data) >= 2 =>
         \A i \in DOMAIN ButtonEmissions : ButtonEmissions[i].report.code = op.data[2]

\* C8 witness: a note-on on channel 9 emitted a Pad event with its code and no
\* Note event.
C8_Witness ==
  /\ op.kind = "message"
  /\ op.data = <<153, 60, 100>>
  /\ EmissionsOf("onNote") = <<>>
  /\ Len(EmissionsOf("onPad")) = 1
  /\ EmissionsOf("onPad")[1].report.code = 60

\* C9: the velocity of a Note or Pad event is data byte 2 / 127 when the
\* command is 9 and minus that when the command is 8.
C9_VelocitySign ==
  (op.kind = "message" /\ Len(op.data) = 3) =>
    \A i \in DOMAIN ButtonEmissions :
      ButtonEmissions[i].report.velocity =
        [nan |-> FALSE,
         num |-> IF Command = 9 THEN op.data[3] ELSE 0 - op.data[3],
         den |-> 127]

\* C9 witness: a note-off on channel 0 with data bytes (60, 64) emitted a Note
\* event of velocity -64/127.
C9_Witness ==
  /\ op.kind = "message"
  /\ op.data = <<128, 60, 64>>
  /\ Len(EmissionsOf("onNote")) = 1
  /\ EmissionsOf("onNote")[1].report.velocity.num = 0 - 64

ValueOfMessage ==
  IF Len(op.data) >= 3
    THEN [nan |-> FALSE, num |-> op.data[3], den |-> 127]
    ELSE [nan |-> TRUE, num |-> 0, den |-> 127]

\* C11: a message emits one ModWheel event, carrying its value, exactly when
\* its command is 11 and its data byte 1 is 1, on any channel; one PitchBend
\* event, carrying its value, exactly when its command is 14, on any channel
\* and for any data byte 1; and only the Message event when its command is
\* none of 8, 9, 11, 14.
C11_ModWheelAndPitchBend ==
  op.kind = "message" =>
    /\ Len(EmissionsOf("onModWheel")) \in {0, 1}
    /\ Len(EmissionsOf("onPitchBend")) \in {0, 1}
    /\ (Len(EmissionsOf("onModWheel")) = 1)
         <=> (Command = 11 /\ Len(op.data) >= 2 /\ op.data[2] = 1)
    /\ (Len(EmissionsOf("onPitchBend")) = 1) <=> (Command = 14)
    /\ \A i \in DOMAIN Emissions :
         Emissions[i].event \in {"onModWheel", "onPitchBend"} =>
           Emissions[i].report = [value |-> ValueOfMessage]
    /\ Command \notin {8, 9, 11, 14} =>
         (Len(Emissions) = 1 /\ Emissions[1].event = "onMessage")

\* C11 witness: a controller 1 message on channel 5 with value 64 emitted a
\* ModWheel event of value 64/127, and nothing else but the Message event.
C11_Witness ==
  /\ op.kind = "message"
  /\ op.data = <<181, 1, 64>>
  /\ Len(Emissions) = 2
  /\ Emissions[2].event = "onModWheel"
  /\ Emissions[2].report = [value |-> [nan |-> FALSE, num |-> 64, den |-> 127]]

\* Sequence p is the beginning of sequence q.
IsPrefix(p, q) == Len(p) <= Len(q) /\ \A i \in DOMAIN p : p[i] = q[i]

\* Function value fn is registered with listener l for some event.
IsRegistered(l, fn) ==
  \E e \in EventNameSet : \E i \in DOMAIN events[l][e] : events[l][e][i] = fn

\* C12: when an entry point calls, for an event, a callback that calls the
\* function its own subscribe call returned, every callback registered for
\* that event when the entry point started is still called, in order, and
\* afterwards the callback is registered for no event, so that no later event
\* calls it.
C12_SelfUnsubscribe ==
  [][\A e \in ActingEvents :
       (\E i \in DOMAIN CallsOf(e)' : CallsOf(e)'[i] = "u") =>
         /\ IsPrefix(events[op'.listener][e], CallsOf(e)')
         /\ ~IsRegistered(op.listener, "u")']_vars

\* C12 witness: a message called a callback that unsubscribed itself and then
\* the subscriber behind it, which alone is still registered.
C12_Witness ==
  /\ op.kind = "message"
  /\ CallsOf("onMessage") = <<"u", "g">>
  /\ events[op.listener]["onMessage"] = <<"g">>
  /\ ~IsRegistered(op.listener, "u")

\* C13: calling the function a subscribe call returned takes from the caller of
\* each event no more than the one registration that subscribe call made
\* there, so that every registration of another subscribe call stays, also
\* one of the same function value.
C13_HandleRemovesOwnRegistrations ==
  [][op'.kind = "unsubscribe" =>
       \A e \in EventNameSet :
         Len(events[op'.listener][e]) - Len(events'[op'.listener][e]) <= 1]_vars

\* Event e is among the events the last entry point emitted.
IsEmitted(e) == \E i \in DOMAIN Emissions : Emissions[i].event = e

\* C14: clear() leaves no callback registered for any of the six events; a
\* message or a curation pass calls, for each event it emits, exactly the
\* callbacks registered at that time, and for the other events none, so that
\* after a clear only callbacks subscribed after it are called, and these
\* are; and calling, right after a clear, a function that a subscribe call
\* before the clear returned changes nothing.
C14_ClearRemovesAll ==
  [][/\ op'.kind = "clear" =>
          \A e \in EventNameSet : events'[op'.listener][e] = <<>>
     /\ op'.kind \in {"message", "statechange", "construct"} =>
          \A e \in EventNameSet :
            CallsOf(e)' = IF IsEmitted(e)' THEN Registered(op.listener, e)' ELSE <<>>
     /\ (op.kind = "clear" /\ op'.kind = "unsubscribe") => events' = events]_vars

\* C14 witness: both callbacks objects were subscribed, clear() ran last, and
\* no callback is registered.
C14_Witness ==
  /\ op.kind = "clear"
  /\ handles[op.listener] = CallbackObjects
  /\ \A e \in EventNameSet : events[op.listener][e] = <<>>

\* The report of the Message event the last entry point emitted.
MessageReport == EmissionsOf("onMessage")[1].report

\* C15: the report of every Message event has its command and its channel in
\* 0..15, its code in 0..127 when data byte 1 is present, and as value, when
\* data byte 2 is present, that byte / 127, which lies within [0, 1].
C15_ReportRanges ==
  op.kind = "message" =>
    /\ MessageReport.command \in 0..15
    /\ MessageReport.channel \in 0..15
    /\ Len(op.data) >= 2 => MessageReport.code \in 0..127
    /\ Len(op.data) >= 3 =>
         /\ MessageReport.value = [nan |-> FALSE, num |-> op.data[3], den |-> 127]
         /\ 0 <= MessageReport.value.num
         /\ MessageReport.value.num <= MessageReport.value.den

\* The events the last entry point emitted, by name, in order.
EmittedEvents == [i \in DOMAIN Emissions |-> Emissions[i].event]

\* The events handling a message of full length emits.
EventsOfData(data) ==
  LET special == Specialized(parseMidiMessage(data))
  IN <<"onMessage">> \o [i \in DOMAIN special |-> special[i].event]

\* C16: a message of length 1 or 2 emits the Message event and the
\* specialized event that a message of full length with the same status byte
\* and data byte 1 emits (for a message of length 1 and a command other than
\* 11, which looks at data byte 1: with the same status byte); the code of a
\* report is undefined when data byte 1 is missing, and no report carries a
\* value, a velocity or a frequency that is not a number: the fields that
\* depend on a missing byte are absent.
C16_ShortMessageFieldsAbsent ==
  (op.kind = "message" /\ Len(op.data) < 3) =>
    /\ Len(EmissionsOf("onMessage")) = 1
    /\ Len(op.data) = 2 =>
         EmittedEvents = EventsOfData(<<op.data[1], op.data[2], 0>>)
    /\ Len(op.data) = 1 =>
         /\ MessageReport.code = Undefined
         /\ Command # 11 => EmittedEvents = EventsOfData(<<op.data[1], 0, 0>>)
         /\ \A i \in DOMAIN Emissions :
              "code" \in DOMAIN Emissions[i].report =>
                Emissions[i].report.code = Undefined
    /\ \A i \in DOMAIN Emissions :
         /\ "value" \in DOMAIN Emissions[i].report => ~Emissions[i].report.value.nan
         /\ "velocity" \in DOMAIN Emissions[i].report => ~Emissions[i].report.velocity.nan
         /\ "frequency" \in DOMAIN Emissions[i].report => ~Emissions[i].report.frequency.nan

\* Twice a frequency: doubling a Number is exact.
Twice(frequency) == [frequency EXCEPT !.twelfths = @ + 12]

\* The frequency of the Note event the last entry point emitted.
NoteFrequency == EmissionsOf("onNote")[1].report.frequency

\* The last entry point handled a message that emitted a Note event.
IsNote == op.kind = "message" /\ EmissionsOf("onNote") # <<>>

\* The largest difference between the rounding errors of the exponents of two
\* notes an octave apart, in units of 2^-56 / 12: 2^-51.
OctaveError == 384

\* C17, as claimed: the frequency of a Note event is 440 * 2^((code - 69) / 12),
\* it is 440 for code 69 and 880 for code 81, and for every code c in 0..115
\* the frequency for c + 12 is exactly twice the one for c.
C17_OctaveDoublesExactly ==
  (IsNote /\ Len(op.data) >= 2) =>
    /\ ~NoteFrequency.nan
    /\ NoteFrequency.base = 440
    /\ NoteFrequency.twelfths = op.data[2] - 69
    /\ op.data[2] \in {69, 81} => NoteFrequency.error = 0
    /\ op.data[2] \in 0..115 =>
         noteCodeToFrequency(op.data[2] + 12) = Twice(NoteFrequency)

\* C17, amended: the frequency of a Note event is 440 * 2^e, where e is
\* (code - 69) / 12 rounded to a Number; it is 440 for code 69 and 880 for
\* code 81; for every code c in 0..115 the exponent for c + 12 is the
\* exponent for c plus one up to a rounding error of at most 2^-51, and it is
\* exactly that, the frequency for c + 12 being exactly twice the one for c,
\* when c is a multiple of 3.
C17_OctaveDoublesUpToRounding ==
  (IsNote /\ Len(op.data) >= 2) =>
    /\ ~NoteFrequency.nan
    /\ NoteFrequency.base = 440
    /\ NoteFrequency.twelfths = op.data[2] - 69
    /\ op.data[2] \in {69, 81} => NoteFrequency.error = 0
    /\ op.data[2] \in 0..115 =>
         LET above == noteCodeToFrequency(op.data[2] + 12)
         IN /\ above.twelfths = NoteFrequency.twelfths + 12
            /\ above.error - NoteFrequency.error <= OctaveError
            /\ NoteFrequency.error - above.error <= OctaveError
            /\ op.data[2] % 3 = 0 => above = Twice(NoteFrequency)

\* C17 witness: a note-on of code 10 emitted a Note event whose exponent,
\* -59 / 12, is rounded down, where the exponent of code 22, -47 / 12, is
\* rounded up.
C17_Witness ==
  /\ IsNote
  /\ op.data = <<144, 10, 127>>
  /\ NoteFrequency.twelfths = 0 - 59
  /\ NoteFrequency.error < 0
  /\ noteCodeToFrequency(22).error > 0

\* C18: the dispatch of an event calls exactly the callbacks registered for it
\* when the dispatch starts, once per registration and in order, whatever the
\* callbacks unsubscribe, subscribe or clear while it runs.  (The events of
\* ActingEvents are dispatched first by their entry point, so that the
\* callbacks registered when the dispatch starts are those registered when
\* the entry point starts.)
C18_DispatchCallsSnapshot ==
  [][\A e \in ActingEvents :
       IsEmitted(e)' => CallsOf(e)' = events[op'.listener][e]]_vars

\* C19: whenever no entry point is running, the count a listener stores is the
\* number of connected and open ports its most recent curation pass computed,
\* also when that pass called callbacks that unsubscribe, subscribe or clear;
\* right after a pass it is the number of connected and open ports.
C19_StoredCountIsLatest ==
  /\ \A l \in Listeners :
       last[l] # NoPass => numberOfActiveInputs[l] = last[l].count
  /\ IsCuration => numberOfActiveInputs[op.listener] = OpenConnected

\* C19 witness: a pass that followed a pass counted two ports where one was
\* stored, called a callback that unsubscribed itself and one that
\* subscribed another, and stored 2.
C19_Witness ==
  /\ op.kind = "statechange"
  /\ prev.stored = 1
  /\ CallsOf("onInputChange") = <<"u", "a">>
  /\ OpenConnected = 2
  /\ numberOfActiveInputs[op.listener] = 2

BothConstructed == \A l \in Listeners : variant[l] # "none"

\* The function values listener l's callbacks are.
FuncsOf(l) == {ListenerCallbacks(l)[e] : e \in DOMAIN ListenerCallbacks(l)}

\* C21: once two listeners are constructed on one access object, the state
\* change slot holds the handler of the listener constructed last, the
\* message slot of every port holds that listener's handler or none, and
\* every state change and every message is handled by that listener, which
\* calls its own callbacks only: the listener constructed first emits nothing.
C21_LastHandlerWins ==
  BothConstructed =>
    /\ onstatechange # NoHandler
    /\ \A i \in DOMAIN inputs : inputs[i].onmidimessage \in {NoHandler, onstatechange}
    /\ op.kind \in {"construct", "statechange", "message"} =>
         /\ op.listener = onstatechange
         /\ CalledFuncs(trace) \subseteq FuncsOf(onstatechange)

\* C21 witness: listener 2 was constructed after listener 1, which holds a
\* Message callback and ran a pass on a port that is still there; a message
\* arrived and called the callback of listener 2 only.
C21_Witness ==
  /\ BothConstructed
  /\ onstatechange = 2
  /\ op.kind = "message"
  /\ op.listener = 2
  /\ Registered(1, "onMessage") = <<"f">>
  /\ last[1].count = 1
  /\ CallsOf("onMessage") = <<"g">>

=============================================================================
